---------------------------- MODULE Spec2Model ----------------------------
(***************************************************************************)
(* A model of the zk-example repository.                                   *)
(*                                                                         *)
(*   halo/src/main.rs      the circuit y = x^3 + x + c over two advice     *)
(*                         columns: FieldChip (configure, load_private,    *)
(*                         load_constant, mul, add, expose_public),        *)
(*                         MyCircuit (without_witnesses, synthesize) and   *)
(*                         main, which runs the mock verifier.             *)
(*   resczero/...          the guest that computes y = x^3 + x + 5 with    *)
(*                         checked u64 arithmetic and the host's           *)
(*                         polynomial(x).                                  *)
(*                                                                         *)
(* Field elements are modelled as integers: for the bounded inputs every   *)
(* value stays far below the field's modulus, so no reduction happens.     *)
(* A cell value is a record [known, v]: Known(v) or Unknown.               *)
(***************************************************************************)
EXTENDS Integers, Sequences, FiniteSets, TLC

\* ------------------------------------------------------------------ bounds
MaxX == 3
MaxC == 5
MaxK == 5
MaxTamper == 1
MaxTamperVal == 2
MaxCalls == 4
ExtraInputs == 3

\* ------------------------------------------------------- program constants
\* let k = 4 in main
MainK == 4
\* if x > 100 in the guest
InputLimit == 100
\* checked_add(5) in the guest
GuestConstant == 5

VARIABLES
    pc,          \* position of the halo pipeline / of the chip driver
    circuit,     \* MyCircuit {constant, x}
    origin,      \* the circuit without_witnesses was called on
    structural,  \* whether circuit is the result of without_witnesses
    k,           \* log2 of the table height
    instance,    \* the public input vector
    prover,      \* the laid-out table and its constraint lists
    runResult,   \* MockProver::run: "none" | "ok" | an error
    violations,  \* prover.verify(): the violations reported
    tampered,    \* number of cells an adversary overwrote
    handles,     \* Numbers returned by chip calls so far (chip driver)
    calls,       \* chip calls made so far (chip driver)
    gpc,         \* position of the guest / host of the execution-trace path
    input,       \* x sent to the guest
    acc,         \* the guest's running Option<u64>
    journal,     \* what the guest committed
    receipt,     \* whether the host holds a receipt
    output       \* what polynomial(x) returns

haloVars == <<pc, circuit, origin, structural, k, instance, prover, runResult,
              violations, tampered>>
chipVars == <<handles, calls>>
traceVars == <<gpc, input, acc, journal, receipt, output>>
vars == <<haloVars, chipVars, traceVars>>

\* ------------------------------------------------------------------ values
Known(v) == [known |-> TRUE, v |-> v]
Unknown == [known |-> FALSE, v |-> 0]

\* Value + Value: unknown absorbs.
VAdd(a, b) == IF a.known /\ b.known THEN Known(a.v + b.v) ELSE Unknown
\* Value * Value: unknown absorbs.
VMul(a, b) == IF a.known /\ b.known THEN Known(a.v * b.v) ELSE Unknown
\* Expression subtraction inside a gate polynomial.
VSub(a, b) == IF a.known /\ b.known THEN Known(a.v - b.v) ELSE Unknown
\* selector * polynomial: a disabled selector leaves the row unconstrained.
SelTimes(s, p) == IF s = 0 THEN Known(0) ELSE p
\* An equality the verifier accepts: both sides resolved and equal.
ValEq(a, b) == a.known /\ b.known /\ a.v = b.v

RECURSIVE Pow2(_)
Pow2(n) == IF n = 0 THEN 1 ELSE 2 * Pow2(n - 1)

\* ----------------------------------------------------------- configuration
\* MyCircuit::configure + FieldChip::configure: the columns with equality
\* enabled, the constants column, the two selectors.
Configure ==
    [advice |-> <<"a0", "a1">>,
     instance |-> "instance",
     constant |-> "fixed",
     equality |-> {"instance", "a0", "a1", "fixed"},
     selectors |-> {"s_mul", "s_add"}]

\* The table before synthesis.
NewProver(kk, inst) ==
    [k |-> kk,
     advice |-> <<>>,
     fixed |-> <<>>,
     s_mul |-> {},
     s_add |-> {},
     copies |-> {},
     bindings |-> {},
     instance |-> inst,
     cursor |-> 0,
     regions |-> <<>>,
     err |-> "none"]

Fail(cs, e) == IF cs.err = "none" THEN [cs EXCEPT !.err = e] ELSE cs

\* A row outside the 2^k rows of the table is a layout error.
RowFitsUnchecked(cs, row) == TRUE

RowFits(cs, row) == row < Pow2(cs.k)

\* region.assign_advice(column, row, value); after an error nothing more is
\* assigned (the ? operator returns at the first Err).
AssignAdvice(cs, col, row, val) ==
    IF cs.err # "none" THEN cs
    ELSE IF ~RowFits(cs, row) THEN Fail(cs, "NotEnoughRowsAvailable")
    ELSE [cs EXCEPT !.advice = (<<col, row>> :> val) @@ @]

\* selector.enable(region, row)
EnableSelector(cs, sel, row) ==
    IF cs.err # "none" THEN cs
    ELSE IF ~RowFits(cs, row) THEN Fail(cs, "NotEnoughRowsAvailable")
    ELSE IF sel = "s_mul" THEN [cs EXCEPT !.s_mul = @ \cup {row}]
    ELSE [cs EXCEPT !.s_add = @ \cup {row}]

\* An equality constraint between two cells; both columns need equality enabled.
ConstrainEqual(cs, config, a, b) ==
    IF cs.err # "none" THEN cs
    ELSE IF a[1] \notin config.equality \/ b[1] \notin config.equality
    THEN Fail(cs, "Synthesis")
    ELSE [cs EXCEPT !.copies = @ \cup {<<a, b>>}]

\* AssignedCell::copy_advice: assign the value to the new cell and constrain the
\* two cells equal.
CopyAdvice(cs, config, num, col, row) ==
    ConstrainEqual(AssignAdvice(cs, col, row, num.value), config, num.cell, <<col, row>>)

\* region.assign_advice_from_constant: the advice cell gets the constant, the
\* constant gets a row of the fixed column, and the two cells are constrained equal.
AssignAdviceFromConstant(cs, config, col, row, c) ==
    LET cs1 == AssignAdvice(cs, col, row, Known(c))
        frow == Len(cs1.fixed)
    IN  IF cs1.err # "none" THEN cs1
        ELSE ConstrainEqual([cs1 EXCEPT !.fixed = Append(@, Known(c))], config,
                            <<config.constant, frow>>, <<col, row>>)

\* layouter.constrain_instance(cell, column, row)
ConstrainInstance(cs, config, cell, col, row) ==
    IF cs.err # "none" THEN cs
    ELSE IF cell[1] \notin config.equality \/ col \notin config.equality
    THEN Fail(cs, "Synthesis")
    ELSE [cs EXCEPT !.bindings = @ \cup {<<cell, row>>}]

\* The region is committed: its start row is recorded and the cursor moves past it.
CloseRegion(cs, name, start, rows) ==
    IF cs.err # "none" THEN cs
    ELSE [cs EXCEPT !.regions = Append(@, [name |-> name, start |-> start,
                                           rows |-> rows]),
                    !.cursor = start + rows]

Number(cell, val) == [cell |-> cell, value |-> val]
NoNumber == Number(<<"none", 0>>, Unknown)
Ret(cs, num) == [cs |-> cs, num |-> IF cs.err = "none" THEN num ELSE NoNumber]

\* ------------------------------------------------------------------- chip
\* FieldChip::load_private
LoadPrivate(cs, config, x) ==
    LET start == cs.cursor
        cs1 == AssignAdvice(cs, config.advice[1], start + 0, x)
    IN  Ret(CloseRegion(cs1, "load private", start, 1),
            Number(<<config.advice[1], start + 0>>, x))

\* FieldChip::load_constant
LoadConstant(cs, config, c) ==
    LET start == cs.cursor
        cs1 == AssignAdviceFromConstant(cs, config, config.advice[1], start + 0, c)
    IN  Ret(CloseRegion(cs1, "load constant", start, 1),
            Number(<<config.advice[1], start + 0>>, Known(c)))

\* Mutants of add: the wrong selector; one where the sum is taken as a product.
AddEnablesMul(cs, config, a, b) ==
    LET start == cs.cursor
        cs1 == EnableSelector(cs, "s_mul", start + 0)
        cs2 == CopyAdvice(cs1, config, a, config.advice[1], start + 0)
        cs3 == CopyAdvice(cs2, config, b, config.advice[2], start + 0)
        value == VAdd(a.value, b.value)
        cs4 == AssignAdvice(cs3, config.advice[1], start + 1, value)
    IN  Ret(CloseRegion(cs4, "add", start, 2),
            Number(<<config.advice[1], start + 1>>, value))

\* FieldChip::add
Add(cs, config, a, b) ==
    LET start == cs.cursor
        cs1 == EnableSelector(cs, "s_add", start + 0)
        cs2 == CopyAdvice(cs1, config, a, config.advice[1], start + 0)
        cs3 == CopyAdvice(cs2, config, b, config.advice[2], start + 0)
        value == VAdd(a.value, b.value)
        cs4 == AssignAdvice(cs3, config.advice[1], start + 1, value)
    IN  Ret(CloseRegion(cs4, "add", start, 2),
            Number(<<config.advice[1], start + 1>>, value))

\* Mutants of mul: the product computed as a sum; the second operand assigned
\* without its copy constraint.
MulAsAdd(cs, config, a, b) ==
    LET start == cs.cursor
        cs1 == EnableSelector(cs, "s_mul", start + 0)
        cs2 == CopyAdvice(cs1, config, a, config.advice[1], start + 0)
        cs3 == CopyAdvice(cs2, config, b, config.advice[2], start + 0)
        value == VAdd(a.value, b.value)
        cs4 == AssignAdvice(cs3, config.advice[1], start + 1, value)
    IN  Ret(CloseRegion(cs4, "mul", start, 2),
            Number(<<config.advice[1], start + 1>>, value))

MulNoCopy(cs, config, a, b) ==
    LET start == cs.cursor
        cs1 == EnableSelector(cs, "s_mul", start + 0)
        cs2 == CopyAdvice(cs1, config, a, config.advice[1], start + 0)
        cs3 == AssignAdvice(cs2, config.advice[2], start + 0, b.value)
        value == VMul(a.value, b.value)
        cs4 == AssignAdvice(cs3, config.advice[1], start + 1, value)
    IN  Ret(CloseRegion(cs4, "mul", start, 2),
            Number(<<config.advice[1], start + 1>>, value))

\* FieldChip::mul
Mul(cs, config, a, b) ==
    LET start == cs.cursor
        cs1 == EnableSelector(cs, "s_mul", start + 0)
        cs2 == CopyAdvice(cs1, config, a, config.advice[1], start + 0)
        cs3 == CopyAdvice(cs2, config, b, config.advice[2], start + 0)
        value == VMul(a.value, b.value)
        cs4 == AssignAdvice(cs3, config.advice[1], start + 1, value)
    IN  Ret(CloseRegion(cs4, "mul", start, 2),
            Number(<<config.advice[1], start + 1>>, value))

\* Mutant of expose_public: returns Ok without constraining anything.
ExposeNothing(cs, config, num, row) == Ret(cs, num)

\* FieldChip::expose_public
ExposePublic(cs, config, num, row) ==
    Ret(ConstrainInstance(cs, config, num.cell, config.instance, row), num)

\* ---------------------------------------------------------------- circuit
MyCircuit(c, x) == [constant |-> c, x |-> x]

\* #[derive(Default)]: the zero constant and an unknown x.
DefaultCircuit == MyCircuit(0, Unknown)

\* Mutant of without_witnesses: the circuit is returned as it is.
WithoutWitnessesClone(c) == c

\* MyCircuit::without_witnesses
WithoutWitnesses(c) == DefaultCircuit

\* MyCircuit::synthesize
Synthesize(c, config, cs) ==
    LET x == LoadPrivate(cs, config, c.x)
        constant == LoadConstant(x.cs, config, c.constant)
        x2 == Mul(constant.cs, config, x.num, x.num)
        x3 == Mul(x2.cs, config, x2.num, x.num)
        x3_plus_x == Add(x3.cs, config, x3.num, x.num)
        x3_plus_x_plus_5 == Add(x3_plus_x.cs, config, x3_plus_x.num, constant.num)
    IN  ExposePublic(x3_plus_x_plus_5.cs, config, x3_plus_x_plus_5.num, 0).cs

\* MockProver::run(k, &circuit, instance): configure, then synthesize into a
\* fresh table.
RunProver(kk, c, inst) == Synthesize(c, Configure, NewProver(kk, inst))

\* --------------------------------------------------------------- verifier
Rows(cs) == 0 .. (Pow2(cs.k) - 1)

\* A query of an advice column at a rotation; a cell nobody assigned is unresolved.
QueryAdvice(cs, col, row, rot) ==
    LET r == (row + rot) % Pow2(cs.k)
    IN  IF <<col, r>> \in DOMAIN cs.advice THEN cs.advice[<<col, r>>] ELSE Unknown

QuerySelector(cs, sel, row) ==
    IF sel = "s_mul" THEN (IF row \in cs.s_mul THEN 1 ELSE 0)
    ELSE (IF row \in cs.s_add THEN 1 ELSE 0)

\* Mutant of the gate: out is queried at the current rotation.
GateOutAtCur(cs, config, row) ==
    LET a_0 == QueryAdvice(cs, config.advice[1], row, 0)
        a_1 == QueryAdvice(cs, config.advice[2], row, 0)
        out == QueryAdvice(cs, config.advice[1], row, 0)
        s_mul == QuerySelector(cs, "s_mul", row)
        s_add == QuerySelector(cs, "s_add", row)
        s_1 == SelTimes(s_mul, VSub(VMul(a_0, a_1), out))
        s_2 == SelTimes(s_add, VSub(VAdd(a_0, a_1), out))
    IN  <<s_1, s_2>>

\* The gate "mul|add" of FieldChip::configure, evaluated at a row:
\*   s_mul * (a_0 * a_1 - out),  s_add * (a_0 + a_1 - out),  out = a_0 at the next row.
Gate(cs, config, row) ==
    LET a_0 == QueryAdvice(cs, config.advice[1], row, 0)
        a_1 == QueryAdvice(cs, config.advice[2], row, 0)
        out == QueryAdvice(cs, config.advice[1], row, 1)
        s_mul == QuerySelector(cs, "s_mul", row)
        s_add == QuerySelector(cs, "s_add", row)
        s_1 == SelTimes(s_mul, VSub(VMul(a_0, a_1), out))
        s_2 == SelTimes(s_add, VSub(VAdd(a_0, a_1), out))
    IN  <<s_1, s_2>>

CellValue(cs, cell) ==
    IF cell[1] = "fixed"
    THEN (IF cell[2] < Len(cs.fixed) THEN cs.fixed[cell[2] + 1] ELSE Unknown)
    ELSE IF cell[1] = "instance"
    THEN (IF cell[2] < Len(cs.instance) THEN Known(cs.instance[cell[2] + 1]) ELSE Unknown)
    ELSE QueryAdvice(cs, cell[1], cell[2], 0)

Violation(kind, name, cell, other) ==
    [kind |-> kind, name |-> name, cell |-> cell, with |-> other]

\* (a) every polynomial of the gate is zero at every row
GateViolations(cs, config) ==
    { Violation("gate", IF i = 1 THEN "mul" ELSE "add", <<"a0", r>>, <<"a1", r>>) :
        <<r, i>> \in { q \in Rows(cs) \X {1, 2} :
                         ~ValEq(Gate(cs, config, q[1])[q[2]], Known(0)) } }

\* (b) the two cells of every copy constraint hold equal values
CopyViolations(cs) ==
    { Violation("copy", "equality", p[1], p[2]) :
        p \in { q \in cs.copies : ~ValEq(CellValue(cs, q[1]), CellValue(cs, q[2])) } }

\* (c) every bound cell equals the public input of its instance row
InstanceViolations(cs) ==
    { Violation("instance", "instance", b[1], <<"instance", b[2]>>) :
        b \in { q \in cs.bindings :
                  ~ValEq(CellValue(cs, q[1]), CellValue(cs, <<"instance", q[2]>>)) } }

\* Mutant of verify: fail-fast, the first class of violations found is returned.
VerifyFailFast(cs, config) ==
    IF GateViolations(cs, config) # {}
    THEN {CHOOSE v \in GateViolations(cs, config) : TRUE}
    ELSE IF CopyViolations(cs) # {}
    THEN {CHOOSE v \in CopyViolations(cs) : TRUE}
    ELSE IF InstanceViolations(cs) # {}
    THEN {CHOOSE v \in InstanceViolations(cs) : TRUE}
    ELSE {}

\* prover.verify(): the empty set is Ok(()), otherwise Err(violations).
VerifyProver(cs, config) ==
    GateViolations(cs, config) \cup CopyViolations(cs) \cup InstanceViolations(cs)

\* ------------------------------------------------------- the halo pipeline
Poly(x, c) == x * x * x + x + c
MaxY == Poly(MaxX, MaxC) + 1
PrivateInputs == {Unknown} \cup {Known(x) : x \in 0 .. MaxX}
NoProver == NewProver(0, <<>>)

IdleChip == handles = {} /\ calls = 0
IdleTrace ==
    /\ gpc = "idle" /\ input = 0 /\ acc = Unknown /\ journal = <<>>
    /\ receipt = FALSE /\ output = Unknown

\* main: a circuit, a k and a public input vector of one element.
Init ==
    /\ pc = "start"
    /\ circuit \in {MyCircuit(c, x) : c \in 0 .. MaxC, x \in PrivateInputs}
    /\ origin = circuit
    /\ structural = FALSE
    /\ k \in (MainK - 1) .. MaxK
    /\ instance \in {<<y>> : y \in 0 .. MaxY}
    /\ prover = NoProver
    /\ runResult = "none"
    /\ violations = {}
    /\ tampered = 0
    /\ IdleChip
    /\ IdleTrace

\* The structural pass: the circuit is replaced by circuit.without_witnesses().
StructuralPass ==
    /\ pc = "start"
    /\ ~structural
    /\ circuit' = WithoutWitnesses(circuit)
    /\ structural' = TRUE
    /\ UNCHANGED <<pc, origin, k, instance, prover, runResult, violations, tampered>>
    /\ UNCHANGED <<chipVars, traceVars>>

\* MockProver::run(k, &circuit, vec![public_inputs])
Run ==
    /\ pc = "start"
    /\ LET cs == RunProver(k, circuit, instance)
       IN  /\ prover' = cs
           /\ runResult' = IF cs.err = "none" THEN "ok" ELSE cs.err
           /\ pc' = IF cs.err = "none" THEN "synthesized" ELSE "failed"
    /\ UNCHANGED <<circuit, origin, structural, k, instance, violations, tampered>>
    /\ UNCHANGED <<chipVars, traceVars>>

\* prover.verify()
Verify ==
    /\ pc = "synthesized"
    /\ violations' = VerifyProver(prover, Configure)
    /\ pc' = "verified"
    /\ UNCHANGED <<circuit, origin, structural, k, instance, prover, runResult, tampered>>
    /\ UNCHANGED <<chipVars, traceVars>>

Next == StructuralPass \/ Run \/ Verify

Spec == Init /\ [][Next]_vars

\* --------------------------------------------- the adversarial assignment
\* A witness the chip did not compute: an assigned advice cell is overwritten
\* before verification.
Tamper ==
    /\ pc = "synthesized"
    /\ tampered < MaxTamper
    /\ \E cell \in DOMAIN prover.advice, v \in 0 .. MaxTamperVal :
          prover' = [prover EXCEPT !.advice[cell] = Known(v)]
    /\ tampered' = tampered + 1
    /\ UNCHANGED <<pc, circuit, origin, structural, k, instance, runResult, violations>>
    /\ UNCHANGED <<chipVars, traceVars>>

InitAdv ==
    /\ pc = "start"
    /\ circuit \in {MyCircuit(c, Known(x)) : c \in 0 .. MaxC, x \in 0 .. MaxX}
    /\ origin = circuit
    /\ structural = FALSE
    /\ k = MainK
    /\ instance \in {<<Poly(circuit.x.v, circuit.constant) + d>> : d \in 0 .. 1}
    /\ prover = NoProver
    /\ runResult = "none"
    /\ violations = {}
    /\ tampered = 0
    /\ IdleChip
    /\ IdleTrace

NextAdv == Run \/ Tamper \/ Verify

SpecAdv == InitAdv /\ [][NextAdv]_vars

\* --------------------------------------------------------- the chip driver
\* Any sequence of chip calls on a fresh table, each on Numbers earlier calls
\* returned; a call that fails ends the sequence (the ? operator).
ChipValues == {Unknown} \cup {Known(x) : x \in 0 .. 1}

InitChip ==
    /\ pc = "chip"
    /\ circuit = DefaultCircuit
    /\ origin = DefaultCircuit
    /\ structural = FALSE
    /\ k \in {MainK - 2, MainK}
    /\ instance = <<>>
    /\ prover = NewProver(k, <<>>)
    /\ runResult = "none"
    /\ violations = {}
    /\ tampered = 0
    /\ IdleChip
    /\ IdleTrace

ChipReady == pc = "chip" /\ prover.err = "none" /\ calls < MaxCalls

ChipReturn(r) ==
    /\ prover' = r.cs
    /\ handles' = IF r.cs.err = "none" THEN handles \cup {r.num} ELSE handles
    /\ calls' = calls + 1
    /\ UNCHANGED <<pc, circuit, origin, structural, k, instance, runResult,
                   violations, tampered>>
    /\ UNCHANGED traceVars

ChipLoadPrivate ==
    /\ ChipReady
    /\ \E x \in ChipValues : ChipReturn(LoadPrivate(prover, Configure, x))

ChipLoadConstant ==
    /\ ChipReady
    /\ \E c \in 0 .. 1 : ChipReturn(LoadConstant(prover, Configure, c))

ChipMul ==
    /\ ChipReady
    /\ \E a \in handles, b \in handles : ChipReturn(Mul(prover, Configure, a, b))

ChipAdd ==
    /\ ChipReady
    /\ \E a \in handles, b \in handles : ChipReturn(Add(prover, Configure, a, b))

ChipExpose ==
    /\ ChipReady
    /\ \E num \in handles, row \in 0 .. 1 :
          ChipReturn(ExposePublic(prover, Configure, num, row))

NextChip == ChipLoadPrivate \/ ChipLoadConstant \/ ChipMul \/ ChipAdd \/ ChipExpose

SpecChip == InitChip /\ [][NextChip]_vars

\* ------------------------------------------------ the execution-trace path
Some(v) == Known(v)
None == Unknown

\* A value below 2^64, tested in 16-bit shifts.
FitsU64(r) == r >= 0 /\ (((r \div 65536) \div 65536) \div 65536) \div 65536 = 0
\* u64::checked_mul, u64::checked_add
CheckedMul(a, b) == IF FitsU64(a * b) THEN Some(a * b) ELSE None
CheckedAdd(a, b) == IF FitsU64(a + b) THEN Some(a + b) ELSE None

\* Mutant of the guest's bound: the limit itself is refused.
TooLargeAtLimit(x) == x >= InputLimit

\* if x > 100 { panic!("x is too large") }
TooLarge(x) == x > InputLimit

\* x.checked_mul(x).and_then(..checked_mul(x)).and_then(..checked_add(x))
\*  .and_then(..checked_add(5))
GuestPolynomial(x) ==
    LET x2 == CheckedMul(x, x)
        x3 == IF x2.known THEN CheckedMul(x2.v, x) ELSE None
        x3_plus_x == IF x3.known THEN CheckedAdd(x3.v, x) ELSE None
    IN  IF x3_plus_x.known THEN CheckedAdd(x3_plus_x.v, GuestConstant) ELSE None

\* The journal holds a u64 as its eight little-endian bytes.
RECURSIVE ToBytes(_, _)
ToBytes(v, n) == IF n = 0 THEN <<>> ELSE <<v % 256>> \o ToBytes(v \div 256, n - 1)
RECURSIVE FromBytes(_)
FromBytes(bs) == IF bs = <<>> THEN 0 ELSE bs[1] + 256 * FromBytes(Tail(bs))

IdleHalo ==
    /\ pc = "idle" /\ circuit = DefaultCircuit /\ origin = DefaultCircuit
    /\ structural = FALSE /\ k = MainK /\ instance = <<>> /\ prover = NoProver
    /\ runResult = "none" /\ violations = {} /\ tampered = 0

\* polynomial(x): the host is about to send x to the guest.
InitTrace ==
    /\ IdleHalo
    /\ IdleChip
    /\ gpc = "host_start"
    /\ input \in 0 .. (InputLimit + ExtraInputs)
    /\ acc = None
    /\ journal = <<>>
    /\ receipt = FALSE
    /\ output = None

TraceStep(from, to) ==
    /\ gpc = from
    /\ gpc' = to
    /\ UNCHANGED <<haloVars, chipVars>>

\* ExecutorEnv::builder().write(&x) ... prover.prove(env, ELF): the guest starts.
HostProve ==
    /\ TraceStep("host_start", "guest_read")
    /\ UNCHANGED <<input, acc, journal, receipt, output>>

\* let x: u64 = env::read();
GuestRead ==
    /\ TraceStep("guest_read", "guest_check")
    /\ acc' = Some(input)
    /\ UNCHANGED <<input, journal, receipt, output>>

\* if x > 100 { panic!("x is too large"); }
GuestCheck ==
    /\ gpc = "guest_check"
    /\ gpc' = IF TooLarge(acc.v) THEN "panic_too_large" ELSE "guest_compute"
    /\ UNCHANGED <<input, acc, journal, receipt, output>>
    /\ UNCHANGED <<haloVars, chipVars>>

\* let y = ... .expect("overflow");
GuestCompute ==
    /\ gpc = "guest_compute"
    /\ acc' = GuestPolynomial(acc.v)
    /\ gpc' = IF GuestPolynomial(acc.v).known THEN "guest_commit" ELSE "panic_overflow"
    /\ UNCHANGED <<input, journal, receipt, output>>
    /\ UNCHANGED <<haloVars, chipVars>>

\* env::commit(&y);
GuestCommit ==
    /\ TraceStep("guest_commit", "guest_done")
    /\ journal' = journal \o ToBytes(acc.v, 8)
    /\ UNCHANGED <<input, acc, receipt, output>>

\* prove(..).unwrap().receipt; receipt.journal.decode(): polynomial returns.
HostReturn ==
    /\ TraceStep("guest_done", "host_done")
    /\ receipt' = TRUE
    /\ output' = Some(FromBytes(journal))
    /\ UNCHANGED <<input, acc, journal>>

\* prove(..) is an Err when the guest panicked: unwrap() panics in the host.
HostPanic ==
    /\ gpc \in {"panic_too_large", "panic_overflow"}
    /\ gpc' = "host_panic"
    /\ UNCHANGED <<input, acc, journal, receipt, output>>
    /\ UNCHANGED <<haloVars, chipVars>>

NextTrace ==
    \/ HostProve \/ GuestRead \/ GuestCheck \/ GuestCompute \/ GuestCommit
    \/ HostReturn \/ HostPanic

SpecTrace == InitTrace /\ [][NextTrace]_vars

\* ------------------------------------------------------------------ claims
Failed(vs) == vs # {}
ExposedCell(cs) ==
    LET r == cs.regions[Len(cs.regions)] IN <<"a0", r.start + 1>>

\* C1: for a known x and the public input [x^3 + x + c], running the circuit in
\* a table that fits it succeeds and verification reports no violation.
C1_Completeness ==
    (circuit.x.known /\ instance = <<Poly(circuit.x.v, circuit.constant)>>
        /\ k >= MainK)
    => /\ pc # "failed"
       /\ pc = "synthesized" => runResult = "ok"
       /\ pc = "verified" => violations = {}

C1_Witness ==
    /\ pc = "verified"
    /\ circuit = MyCircuit(5, Known(3))
    /\ instance = <<35>>
    /\ k = MainK
    /\ violations = {}

\* C2: for a known x and a public input other than x^3 + x + c, verification
\* fails and reports the instance binding of the exposed result cell to
\* instance row 0.
C2_WrongPublicInputRejected ==
    (pc = "verified" /\ circuit.x.known
        /\ instance[1] # Poly(circuit.x.v, circuit.constant))
    => /\ Failed(violations)
       /\ \E v \in violations :
             /\ v.kind = "instance"
             /\ v.cell = ExposedCell(prover)
             /\ v.with = <<"instance", 0>>

C2_Witness ==
    /\ pc = "verified"
    /\ circuit = MyCircuit(5, Known(3))
    /\ instance = <<36>>
    /\ \E v \in violations : v.kind = "instance"

\* The rows the laid-out circuit takes, and whether 2^kk rows hold them.
RowsNeeded == RunProver(MaxK, circuit, instance).cursor
Fits(kk) == Pow2(kk) >= RowsNeeded
MinimumK == CHOOSE kk \in 0 .. MaxK : Fits(kk) /\ \A j \in 0 .. (kk - 1) : ~Fits(j)

\* C3: with a k whose 2^k rows hold the table the outcome is the one of the
\* minimum such k; with a smaller k the run ends in the layout error.
C3_OutcomeIndependentOfK ==
    (pc # "start")
    => LET kmin == MinimumK
           atMin == RunProver(kmin, circuit, instance)
       IN  /\ kmin \in 0 .. MaxK
           /\ atMin.err = "none"
           /\ Fits(k) =>
                /\ runResult = "ok"
                /\ pc = "verified" => violations = VerifyProver(atMin, Configure)
           /\ ~Fits(k) =>
                /\ pc = "failed"
                /\ runResult = "NotEnoughRowsAvailable"
                /\ violations = {}

C3_Witness ==
    /\ pc = "verified"
    /\ k > MinimumK
    /\ Failed(violations)

\* The cells holding the constant: the cell load_constant assigned, and the
\* cells it was copied into.
ConstantCells(cs) ==
    LET loaded == {p[2] : p \in {q \in cs.copies : q[1][1] = "fixed"}}
    IN  loaded \cup {p[2] : p \in {q \in cs.copies : q[1] \in loaded}}

\* C4: in the structural pass synthesis succeeds, every cell derived from x is
\* unknown, and verification against any public input fails.
C4_StructuralPass ==
    ((structural \/ ~circuit.x.known) /\ k >= MainK)
    => /\ pc # "failed"
       /\ pc \in {"synthesized", "verified"} =>
            /\ runResult = "ok"
            /\ \A cell \in DOMAIN prover.advice :
                  cell \notin ConstantCells(prover) => ~prover.advice[cell].known
       /\ pc = "verified" => Failed(violations)

C4_Witness ==
    /\ pc = "verified"
    /\ structural
    /\ origin.x.known
    /\ instance = <<Poly(origin.x.v, origin.constant)>>
    /\ Failed(violations)

\* The identities of the two gates, on the rows their selectors enable.
MulHolds(cs, r) ==
    LET a0 == QueryAdvice(cs, "a0", r, 0)
        a1 == QueryAdvice(cs, "a1", r, 0)
        nx == QueryAdvice(cs, "a0", r + 1, 0)
    IN  a0.known /\ a1.known /\ nx.known /\ a0.v * a1.v = nx.v
AddHolds(cs, r) ==
    LET a0 == QueryAdvice(cs, "a0", r, 0)
        a1 == QueryAdvice(cs, "a1", r, 0)
        nx == QueryAdvice(cs, "a0", r + 1, 0)
    IN  a0.known /\ a1.known /\ nx.known /\ a0.v + a1.v = nx.v
GatesHold(cs) ==
    /\ \A r \in cs.s_mul : MulHolds(cs, r)
    /\ \A r \in cs.s_add : AddHolds(cs, r)

\* C5: when verification succeeds a0 * a1 = a0[next] on every s_mul row and
\* a0 + a1 = a0[next] on every s_add row; an assignment that breaks one of
\* them is rejected with a gate violation.
C5_GateSoundness ==
    pc = "verified"
    => /\ violations = {} => GatesHold(prover)
       /\ ~GatesHold(prover) => \E v \in violations : v.kind = "gate"

C5_Witness ==
    /\ pc = "verified"
    /\ tampered > 0
    /\ ~GatesHold(prover)
    /\ \E v \in violations : v.kind = "gate"

\* The copies synthesize makes: operand a into a0/row 0 and operand b into
\* a1/row 0 of the regions x*x, x2*x, x3+x and s+c.
OperandLinks ==
    { <<<<"a0", 0>>, <<"a0", 2>>>>, <<<<"a0", 0>>, <<"a1", 2>>>>,
      <<<<"a0", 3>>, <<"a0", 4>>>>, <<<<"a0", 0>>, <<"a1", 4>>>>,
      <<<<"a0", 5>>, <<"a0", 6>>>>, <<<<"a0", 0>>, <<"a1", 6>>>>,
      <<<<"a0", 7>>, <<"a0", 8>>>>, <<<<"a0", 1>>, <<"a1", 8>>>> }
LinkBroken(cs, p) ==
    /\ CellValue(cs, p[1]).known
    /\ CellValue(cs, p[2]).known
    /\ CellValue(cs, p[1]).v # CellValue(cs, p[2]).v

\* C6: when verification succeeds the two cells of every operand copy hold the
\* same value; a table in which such a pair differs is rejected with the copy
\* violation of that pair.
C6_CopySoundness ==
    pc = "verified"
    => \A p \in OperandLinks :
          /\ violations = {} => ~LinkBroken(prover, p)
          /\ LinkBroken(prover, p) =>
                \E v \in violations : v.kind = "copy" /\ v.cell = p[1] /\ v.with = p[2]

C6_Witness ==
    /\ pc = "verified"
    /\ tampered > 0
    /\ GatesHold(prover)
    /\ \E p \in OperandLinks : LinkBroken(prover, p)
    /\ \E v \in violations : v.kind = "copy"

\* C7: the result of verification is the whole set of unsatisfied constraints:
\* every gate identity broken on an enabled row, every copy constraint and every
\* instance binding whose cells differ is reported, and nothing else is.
C7_VerifyExhaustive ==
    pc = "verified"
    => /\ \A r \in prover.s_mul :
            ~MulHolds(prover, r) <=>
               Violation("gate", "mul", <<"a0", r>>, <<"a1", r>>) \in violations
       /\ \A r \in prover.s_add :
            ~AddHolds(prover, r) <=>
               Violation("gate", "add", <<"a0", r>>, <<"a1", r>>) \in violations
       /\ \A p \in prover.copies :
            ~ValEq(CellValue(prover, p[1]), CellValue(prover, p[2])) <=>
               Violation("copy", "equality", p[1], p[2]) \in violations
       /\ \A b \in prover.bindings :
            ~ValEq(CellValue(prover, b[1]), Known(instance[b[2] + 1])) <=>
               Violation("instance", "instance", b[1], <<"instance", b[2]>>)
                  \in violations
       /\ \A v \in violations :
            \/ v.kind = "gate" /\ v.cell[2] \in prover.s_mul \cup prover.s_add
            \/ v.kind = "copy" /\ <<v.cell, v.with>> \in prover.copies
            \/ v.kind = "instance" /\ <<v.cell, v.with[2]>> \in prover.bindings

C7_Witness ==
    /\ pc = "verified"
    /\ \E v \in violations : v.kind = "gate"
    /\ \E v \in violations : v.kind = "copy"
    /\ \E v \in violations : v.kind = "instance"

\* C10: the structural circuit keeps the constant of the circuit it was derived
\* from, so its fixed column, selectors and constraint lists are those of the
\* witnessed circuit.
C10_StructuralKeepsConstant ==
    (structural /\ pc = "synthesized")
    => /\ circuit.constant = origin.constant
       /\ LET w == RunProver(k, origin, instance)
          IN  /\ prover.fixed = w.fixed
              /\ prover.s_mul = w.s_mul
              /\ prover.s_add = w.s_add
              /\ prover.copies = w.copies
              /\ prover.bindings = w.bindings

\* C8: for x <= 100 the guest commits y = x^3 + x + 5, a value below 2^64, no
\* checked operation overflows, and polynomial(x) returns y with a receipt; for
\* x > 100 the guest aborts before it commits: no journal, no receipt, no output.
C8_TracePath ==
    /\ input <= InputLimit =>
         /\ gpc \notin {"panic_too_large", "panic_overflow", "host_panic"}
         /\ FitsU64(input * input * input + input + 5)
         /\ gpc = "guest_commit" => acc = Some(input * input * input + input + 5)
         /\ gpc \in {"guest_done", "host_done"} =>
               journal = ToBytes(input * input * input + input + 5, 8)
         /\ gpc = "host_done" =>
               receipt /\ output = Some(input * input * input + input + 5)
    /\ input > InputLimit =>
         /\ gpc \notin {"guest_compute", "guest_commit", "guest_done", "host_done",
                        "panic_overflow"}
         /\ journal = <<>>
         /\ ~receipt
         /\ output = None

C8_Witness ==
    /\ gpc = "host_done"
    /\ input = InputLimit
    /\ output = Some(1000105)
    /\ receipt

\* The start rows of the committed regions of one kind.
RegionStarts(cs, name) ==
    {cs.regions[i].start : i \in {j \in 1 .. Len(cs.regions) : cs.regions[j].name = name}}

\* C9: no row has both selectors; every mul (add) region has s_mul (s_add), and
\* only it, enabled at its row 0 and nothing at its row 1; a load region has no
\* selector; the regions follow each other without overlap; no selector is
\* enabled anywhere else (but at row 0 of a region that failed to be laid out).
C9_SelectorExclusion ==
    pc = "chip"
    => /\ prover.s_mul \cap prover.s_add = {}
       /\ \A i \in 1 .. Len(prover.regions) :
             LET r == prover.regions[i]
             IN  /\ r.start = IF i = 1 THEN 0
                              ELSE prover.regions[i - 1].start + prover.regions[i - 1].rows
                 /\ r.name = "mul" =>
                      /\ r.rows = 2
                      /\ r.start \in prover.s_mul /\ r.start \notin prover.s_add
                      /\ (r.start + 1) \notin prover.s_mul \cup prover.s_add
                 /\ r.name = "add" =>
                      /\ r.rows = 2
                      /\ r.start \in prover.s_add /\ r.start \notin prover.s_mul
                      /\ (r.start + 1) \notin prover.s_mul \cup prover.s_add
                 /\ r.name \in {"load private", "load constant"} =>
                      /\ r.rows = 1
                      /\ r.start \notin prover.s_mul \cup prover.s_add
       /\ (prover.s_mul \cup prover.s_add)
             \ (RegionStarts(prover, "mul") \cup RegionStarts(prover, "add"))
          \subseteq (IF prover.err = "none" THEN {} ELSE {prover.cursor})

C9_Witness ==
    /\ pc = "chip"
    /\ prover.err = "none"
    /\ prover.s_mul # {}
    /\ prover.s_add # {}
    /\ prover.bindings # {}

=============================================================================
